---- MODULE Spec2Model ----
(***************************************************************************)
(* NonlinearBlockGS (openmdao/solvers/nonlinear/nonlinear_block_gs.py):    *)
(* the block Gauss-Seidel iteration step with optional Aitken relaxation.  *)
(*                                                                         *)
(* Floating-point values are modelled as exact rationals <<n, d>> in       *)
(* lowest terms with d > 0; <<0, 0>> is NaN.  Vectors are sequences of     *)
(* rationals, one entry per subsystem output.                              *)
(***************************************************************************)
EXTENDS Integers, Sequences, FiniteSets, TLC

\* Largest number of _iter_execute calls the driver makes on one solver, over
\* all its solves.
MaxCalls == 4

VARIABLES
    phase,               \* position of the driver: "constructed", "setup_failed",
                         \* "ready", "solving", "raised"
    zero_division,       \* what a float division by zero does in this build
    options,             \* self.options: use_aitken, aitken_min_factor, aitken_max_factor
    subsystems_allprocs, \* system._subsystems_allprocs
    subsystems_myproc,   \* system._subsystems_myproc
    inputs,              \* the subsystems' input values (target of system._transfer)
    outputs,             \* self._outputs
    aitken_work1,        \* self._aitken_work1 (delta_outputs_n_1)
    aitken_work2,        \* self._aitken_work2 (delta_outputs_n)
    aitken_work3,        \* self._aitken_work3 (outputs_n)
    aitken_work4,        \* self._aitken_work4 (work)
    theta_n_1,           \* self._theta_n_1
    iter_count,          \* self._iter_count
    prefix,              \* self._solver_info.prefix, a sequence of characters
    calls,               \* number of _iter_execute calls so far (history)
    last                 \* record of the most recent _iter_execute call (history)

vars == <<phase, zero_division, options, subsystems_allprocs, subsystems_myproc,
          inputs, outputs, aitken_work1, aitken_work2, aitken_work3, aitken_work4,
          theta_n_1, iter_count, prefix, calls, last>>

----------------------------------------------------------------------------
\* Float arithmetic, as exact rationals.

Abs(x) == IF x < 0 THEN -x ELSE x

RECURSIVE Gcd(_, _)
Gcd(a, b) == IF b = 0 THEN a ELSE Gcd(b, a % b)

NaN == <<0, 0>>
Unset == <<>>

IsNaN(x) == x[2] = 0

Frac(n, d) ==
    IF d = 0 THEN NaN
    ELSE LET g == Gcd(Abs(n), Abs(d))
             s == IF d < 0 THEN -1 ELSE 1
         IN  <<s * (n \div g), s * (d \div g)>>

Zero == Frac(0, 1)
One == Frac(1, 1)

RAdd(x, y) ==
    IF IsNaN(x) \/ IsNaN(y) THEN NaN
    ELSE LET g == Gcd(x[2], y[2])
             l == (x[2] \div g) * y[2]
         IN  Frac(x[1] * (l \div x[2]) + y[1] * (l \div y[2]), l)

RNeg(x) == <<-x[1], x[2]>>

RSub(x, y) == RAdd(x, RNeg(y))

RMul(x, y) ==
    IF IsNaN(x) \/ IsNaN(y) THEN NaN
    ELSE LET g1 == Gcd(Abs(x[1]), y[2])
             g2 == Gcd(Abs(y[1]), x[2])
         IN  Frac((x[1] \div g1) * (y[1] \div g2), (x[2] \div g2) * (y[2] \div g1))

\* x / y for y # 0; a zero divisor is handled where the division is made.
RDiv(x, y) ==
    IF IsNaN(x) \/ IsNaN(y) \/ y[1] = 0 THEN NaN
    ELSE RMul(x, Frac(y[2], y[1]))

\* x < y; every comparison with NaN is false.
RLt(x, y) == ~IsNaN(x) /\ ~IsNaN(y) /\ x[1] * y[2] < y[1] * x[2]

RLe(x, y) == ~IsNaN(x) /\ ~IsNaN(y) /\ x[1] * y[2] <= y[1] * x[2]

\* Python's min(a, b) and max(a, b): the first argument unless the second
\* compares strictly smaller (larger).
PyMin(a, b) == IF RLt(b, a) THEN b ELSE a

PyMax(a, b) == IF RLt(a, b) THEN b ELSE a

----------------------------------------------------------------------------
\* Vector operations.

VecSub(v, w) == [i \in 1..Len(v) |-> RSub(v[i], w[i])]

VecScale(a, v) == [i \in 1..Len(v) |-> RMul(a, v[i])]

\* v + a * w  (Vector.add_scal_vec)
VecAddScal(v, a, w) == [i \in 1..Len(v) |-> RAdd(v[i], RMul(a, w[i]))]

RECURSIVE DotUpTo(_, _, _)
DotUpTo(v, w, k) ==
    IF k = 0 THEN Zero ELSE RAdd(DotUpTo(v, w, k - 1), RMul(v[k], w[k]))

Dot(v, w) == DotUpTo(v, w, Len(v))

\* get_norm() ** 2
NormSq(v) == Dot(v, v)

ZeroVec(n) == [i \in 1..n |-> Zero]

----------------------------------------------------------------------------
\* The owning system: an ordered list of subsystems.  Subsystem i owns output
\* i and reads one input, connected to output src; its local solve sets its
\* output to coef * input + const.

Sub(cn, cd, kn, kd, s) == [coef |-> Frac(cn, cd), const |-> Frac(kn, kd), src |-> s]

\* y1 = y2/2 + 1, y2 = y1/2 + 1 from (0, 0): converges to (2, 2)
Example ==
    [subs |-> <<Sub(1, 2, 1, 1, 2), Sub(1, 2, 1, 1, 1)>>, y0 |-> <<Zero, Zero>>]

Problems ==
    { Example,
      \* the same coupling started at its fixed point
      [subs |-> Example.subs, y0 |-> <<Frac(2, 1), Frac(2, 1)>>],
      \* the same coupling started at (-2, 0): consecutive increments are
      \* parallel, (3, 3/2) then (3/4, 3/8)
      [subs |-> Example.subs, y0 |-> <<Frac(-2, 1), Zero>>],
      \* y1 = y2 + 1, y2 = y1: every sweep adds (1, 1)
      [subs |-> <<Sub(1, 1, 1, 1, 2), Sub(1, 1, 0, 1, 1)>>, y0 |-> <<Zero, Zero>>],
      \* y1 = 1 - y2, y2 = y1: the plain sweep oscillates between (1, 1) and (0, 0)
      [subs |-> <<Sub(-1, 1, 1, 1, 2), Sub(1, 1, 0, 1, 1)>>, y0 |-> <<Zero, Zero>>] }

\* (aitken_min_factor, aitken_max_factor): the defaults, a narrower range and
\* a range given the wrong way round (nothing validates the two options).
DefaultRange == <<Frac(1, 10), Frac(3, 2)>>

FactorRanges == { DefaultRange, <<Frac(1, 2), One>>, <<Frac(3, 2), Frac(1, 2)>> }

\* The configurations explored.  One is left out: Aitken relaxation with the
\* default limits on the example started at (0, 0), whose factors (124/85,
\* ...) are never clamped and whose exact outputs outgrow 32-bit integers
\* within a few iterations; the start (-2, 0) runs that configuration.
Explored(p, use_aitken, range) ==
    ~(p = Example /\ use_aitken /\ range = DefaultRange)

PrefixSegment == <<"|", " ", " ">>

NoCall ==
    [outcome |-> "none", iter |-> 0, pre |-> Unset, post |-> Unset,
     delta_prev |-> Unset, delta |-> Unset, theta_read |-> Unset,
     prev_factor |-> Unset, aitken |-> FALSE, denominator |-> Unset,
     raw |-> Unset, theta |-> Unset, prefix_entry |-> Unset, events |-> <<>>]

Init ==
    /\ phase = "constructed"
    /\ zero_division \in {"raise", "nan"}
    /\ \E ua \in BOOLEAN, r \in FactorRanges, p \in Problems :
           /\ Explored(p, ua, r)
           /\ options = [use_aitken |-> ua, aitken_min_factor |-> r[1],
                         aitken_max_factor |-> r[2]]
           /\ subsystems_allprocs = p.subs
           /\ subsystems_myproc \in {p.subs, SubSeq(p.subs, 1, Len(p.subs) - 1)}
           /\ outputs = p.y0
           /\ inputs = ZeroVec(Len(p.y0))
    /\ aitken_work1 = Unset
    /\ aitken_work2 = Unset
    /\ aitken_work3 = Unset
    /\ aitken_work4 = Unset
    /\ theta_n_1 = Unset
    /\ iter_count = 0
    /\ prefix \in {<<>>, PrefixSegment}
    /\ calls = 0
    /\ last = NoCall

----------------------------------------------------------------------------
\* _setup_solvers

\* Variant: the comparison written as "<".
SetupRaisesLess(allprocs, myproc) == Len(allprocs) < Len(myproc)

SetupRaises(allprocs, myproc) == Len(allprocs) # Len(myproc)

SetupSolvers ==
    /\ phase = "constructed"
    /\ phase' = IF SetupRaises(subsystems_allprocs, subsystems_myproc)
                THEN "setup_failed" ELSE "ready"
    /\ UNCHANGED <<zero_division, options, subsystems_allprocs, subsystems_myproc,
                   inputs, outputs, aitken_work1, aitken_work2, aitken_work3,
                   aitken_work4, theta_n_1, iter_count, prefix, calls, last>>

----------------------------------------------------------------------------
\* _iter_initialize

\* Vector._clone(): a vector of the same layout holding the same values.
Clone(v) == v

IterInitialize ==
    /\ aitken_work1' = Clone(outputs)
    /\ aitken_work2' = Clone(outputs)
    /\ aitken_work3' = Clone(outputs)
    /\ aitken_work4' = Clone(outputs)
    /\ theta_n_1' = One

----------------------------------------------------------------------------
\* _iter_execute

\* system._transfer('nonlinear', 'fwd', isub)
Transfer(ins, outs, isub) ==
    [ins EXCEPT ![isub] = outs[subsystems_myproc[isub].src]]

\* subsys._solve_nonlinear()
SolveNonlinear(outs, ins, isub) ==
    [outs EXCEPT ![isub] = RAdd(RMul(subsystems_myproc[isub].coef, ins[isub]),
                                subsystems_myproc[isub].const)]

\* Variant: the solve is called before the transfer into the subsystem.
SweepStepSolveFirst(outs, ins, isub) ==
    LET outs1 == SolveNonlinear(outs, ins, isub)
    IN  [outputs |-> outs1,
         inputs  |-> Transfer(ins, outs1, isub),
         events  |-> << <<"solve", isub>>, <<"transfer", isub>>, <<"reconf", isub>> >>]

\* One pass of the loop body for a subsystem whose solve succeeds.
SweepStep(outs, ins, isub) ==
    LET ins1 == Transfer(ins, outs, isub)
    IN  [outputs |-> SolveNonlinear(outs, ins1, isub),
         inputs  |-> ins1,
         events  |-> << <<"transfer", isub>>, <<"solve", isub>>, <<"reconf", isub>> >>]

\* The for loop from subsystem isub on; the solve of subsystem failAt raises
\* (failAt = 0: none does).
RECURSIVE GSSweep(_, _, _, _, _)
GSSweep(isub, outs, ins, ev, failAt) ==
    IF isub > Len(subsystems_myproc)
    THEN [outputs |-> outs, inputs |-> ins, events |-> ev, raised |-> FALSE]
    ELSE IF isub = failAt
    THEN [outputs |-> outs, inputs |-> Transfer(ins, outs, isub),
          events |-> ev \o << <<"transfer", isub>>, <<"solve", isub>> >>,
          raised |-> TRUE]
    ELSE LET st == SweepStep(outs, ins, isub)
         IN  GSSweep(isub + 1, st.outputs, st.inputs, ev \o st.events, failAt)

\* Variant: the "*= -1" is left out.
RawIncrementNotNegated(pre, post) == VecSub(pre, post)

\* delta_outputs_n after "delta_outputs_n -= outputs; delta_outputs_n *= -1",
\* delta_outputs_n holding the pre-sweep outputs before.
RawIncrement(pre, post) == VecScale(Frac(-1, 1), VecSub(pre, post))

\* Variant: the upper limit is not applied.
ClampNoUpper(minf, maxf, theta) == PyMax(minf, theta)

\* theta_n = max(aitken_min_factor, min(aitken_max_factor, theta_n))
Clamp(minf, maxf, theta) == PyMax(minf, PyMin(maxf, theta))

\* numerator / denominator where the denominator may be zero and the build
\* yields NaN for it.
Ratio(numerator, denominator) ==
    IF denominator = Zero THEN NaN ELSE RDiv(numerator, denominator)

\* theta_n_1 * ( 1 - numerator / denominator ), before the clamp
AitkenRaw(theta_prev, work, delta_n) ==
    RMul(theta_prev, RSub(One, Ratio(Dot(work, delta_n), NormSq(work))))

\* Variant: the relaxed increment is added to the swept outputs, without
\* restoring the pre-sweep snapshot first.
RelaxedNoRestore(outputs_n, theta_n, delta_n) ==
    VecAddScal(VecAddScal(outputs_n, One, delta_n), theta_n, delta_n)

\* outputs.set_vec(outputs_n); outputs.add_scal_vec(theta_n, delta_outputs_n)
Relaxed(outputs_n, theta_n, delta_n) == VecAddScal(outputs_n, theta_n, delta_n)

\* self._solver_info.prefix[:-3]
PopPrefix(p) == SubSeq(p, 1, Len(p) - 3)

\* Variant: the use_aitken option is not consulted.
AitkenBranchAnyOption(count, use_aitken) == count >= 1

\* if self._iter_count >= 1 and use_aitken
AitkenBranch(count, use_aitken) == count >= 1 /\ use_aitken

\* The value self._theta_n_1 holds after the call: the assignment
\* "theta_n_1 = theta_n" binds the local name only.
StoredTheta(stored, theta_n) == stored

IterExecute(failAt) ==
    LET sw == GSSweep(1, outputs, inputs, <<>>, failAt)
        delta_n == RawIncrement(outputs, sw.outputs)
        aitken == AitkenBranch(iter_count, options.use_aitken)
        work == VecSub(delta_n, aitken_work1)
        denominator == NormSq(work)
        raw == AitkenRaw(theta_n_1, work, delta_n)
        theta_n == IF aitken
                   THEN Clamp(options.aitken_min_factor, options.aitken_max_factor, raw)
                   ELSE One
        call == [NoCall EXCEPT
                    !.iter = iter_count, !.pre = outputs, !.delta_prev = aitken_work1,
                    !.theta_read = theta_n_1, !.prefix_entry = prefix,
                    !.prev_factor = IF last.outcome = "returned" /\ last.aitken
                                    THEN last.theta ELSE Unset]
    IN  IF sw.raised
        THEN \* a subsystem's solve raised: the rest of the method is skipped
             /\ phase' = "raised"
             /\ outputs' = sw.outputs
             /\ inputs' = sw.inputs
             /\ aitken_work2' = outputs
             /\ aitken_work3' = outputs
             /\ prefix' = prefix \o PrefixSegment
             /\ last' = [call EXCEPT !.outcome = "solve_raised", !.events = sw.events]
             /\ UNCHANGED <<aitken_work1, aitken_work4, theta_n_1>>
        ELSE IF aitken /\ denominator = Zero /\ zero_division = "raise"
        THEN \* numerator / denominator raised ZeroDivisionError
             /\ phase' = "raised"
             /\ outputs' = sw.outputs
             /\ inputs' = sw.inputs
             /\ aitken_work2' = delta_n
             /\ aitken_work3' = outputs
             /\ aitken_work4' = work
             /\ prefix' = prefix \o PrefixSegment
             /\ last' = [call EXCEPT !.outcome = "division_raised", !.post = sw.outputs,
                                     !.delta = delta_n, !.aitken = TRUE,
                                     !.denominator = denominator,
                                     !.events = Append(sw.events, <<"relax", 0>>)]
             /\ UNCHANGED <<aitken_work1, theta_n_1>>
        ELSE /\ phase' = phase
             /\ outputs' = Relaxed(outputs, theta_n, delta_n)
             /\ inputs' = sw.inputs
             /\ aitken_work1' = delta_n
             /\ aitken_work2' = delta_n
             /\ aitken_work3' = outputs
             /\ aitken_work4' = IF aitken THEN work ELSE aitken_work4
             /\ theta_n_1' = StoredTheta(theta_n_1, theta_n)
             /\ prefix' = PopPrefix(prefix \o PrefixSegment)
             /\ last' = [call EXCEPT !.outcome = "returned", !.post = sw.outputs,
                                     !.delta = delta_n, !.aitken = aitken,
                                     !.denominator = IF aitken THEN denominator ELSE Unset,
                                     !.raw = IF aitken THEN raw ELSE Unset,
                                     !.theta = theta_n,
                                     !.events = sw.events \o
                                                << <<"relax", 0>>, <<"write_back", 0>> >>]

----------------------------------------------------------------------------
\* The iteration driver (NonlinearSolver): setup once, then for each solve
\* _iter_initialize followed by repeated _iter_execute calls.

BeginSolve ==
    /\ phase \in {"ready", "solving", "raised"}
    /\ phase' = "solving"
    /\ iter_count' = 0
    /\ IterInitialize
    /\ last' = NoCall
    /\ UNCHANGED <<zero_division, options, subsystems_allprocs, subsystems_myproc,
                   inputs, outputs, prefix, calls>>

RunIteration ==
    /\ phase = "solving"
    /\ calls < MaxCalls
    /\ calls' = calls + 1
    /\ \E failAt \in 0..Len(subsystems_myproc) : IterExecute(failAt)
    /\ iter_count' = IF phase' = "solving" THEN iter_count + 1 ELSE iter_count
    /\ UNCHANGED <<zero_division, options, subsystems_allprocs, subsystems_myproc>>

Next == SetupSolvers \/ BeginSolve \/ RunIteration

Spec == Init /\ [][Next]_vars

----------------------------------------------------------------------------
\* Properties.

Returned == last.outcome = "returned"

\* C1: with use_aitken false every completed _iter_execute applies the factor
\* 1.0 and leaves the outputs equal to what the Gauss-Seidel sweep produced;
\* for y1 = y2/2 + 1, y2 = y1/2 + 1 swept from (0, 0) the first iteration
\* yields (1, 3/2) and the second (7/4, 15/8).
C1_PlainGaussSeidel ==
    (Returned /\ ~options.use_aitken) =>
        /\ last.theta = One
        /\ outputs = last.post
        /\ (subsystems_myproc = Example.subs /\ last.pre = <<Zero, Zero>>)
               => outputs = <<One, Frac(3, 2)>>
        /\ (subsystems_myproc = Example.subs /\ last.pre = <<One, Frac(3, 2)>>)
               => outputs = <<Frac(7, 4), Frac(15, 8)>>

C1_Witness ==
    /\ Returned /\ ~options.use_aitken /\ last.iter = 1
    /\ last.delta_prev = <<One, Frac(3, 2)>>
    /\ outputs = <<Frac(7, 4), Frac(15, 8)>>

InRange(theta) ==
    RLe(options.aitken_min_factor, theta) /\ RLe(theta, options.aitken_max_factor)

\* C2 (as claimed): for every configured pair of limits, the factor applied
\* on an Aitken iteration lies in [aitken_min_factor, aitken_max_factor].
C2_FactorInRangeAnyLimits == (Returned /\ last.aitken) => InRange(last.theta)

\* C2 (amended): when aitken_min_factor <= aitken_max_factor, the factor
\* applied on an Aitken iteration lies in [aitken_min_factor, aitken_max_factor],
\* whatever the unclamped value is.
C2_FactorInRange ==
    (Returned /\ last.aitken
         /\ RLe(options.aitken_min_factor, options.aitken_max_factor))
        => InRange(last.theta)

C2_Witness ==
    /\ Returned /\ last.aitken
    /\ RLt(options.aitken_min_factor, options.aitken_max_factor)
    /\ RLt(options.aitken_max_factor, last.raw)
    /\ last.theta = options.aitken_max_factor

Partitioned == Len(subsystems_allprocs) # Len(subsystems_myproc)

\* C3: _setup_solvers raises exactly when the process holds a different number
\* of subsystems than exist across all processes, and on such a group no
\* _iter_initialize or _iter_execute ever runs.
C3_SetupRejectsPartition ==
    /\ phase # "constructed" => (phase = "setup_failed" <=> Partitioned)
    /\ Partitioned => (calls = 0 /\ last.outcome = "none" /\ theta_n_1 = Unset)

C3_Witness == phase = "setup_failed" /\ Partitioned

Stagnation == last.aitken /\ last.delta = last.delta_prev

\* C4: on an Aitken iteration whose raw increment equals the previous one,
\* _iter_execute does not divide by zero and completes with the finite factor
\* 1.0 or the previous factor.
C4_StagnationGuarded ==
    Stagnation =>
        /\ last.denominator # Zero
        /\ Returned
        /\ ~IsNaN(last.theta)
        /\ last.theta \in {One, last.theta_read}

SweepCompleted == last.outcome \in {"returned", "division_raised"}

\* C5: a call whose sweep leaves the outputs unchanged returns with the
\* outputs equal to their value at entry.
C5_ZeroIncrementReturnsUnchanged ==
    (SweepCompleted /\ last.post = last.pre) => (Returned /\ outputs = last.pre)

\* C6: the theta_n_1 entering the Aitken formula is 1.0 if no factor has been
\* computed since the last _iter_initialize, and otherwise the clamped factor
\* applied by the immediately preceding iteration.
C6_FactorPersisted ==
    last.aitken =>
        last.theta_read = (IF last.prev_factor = Unset THEN One ELSE last.prev_factor)

\* C7 (as claimed): the increment saved in delta_outputs_n_1 equals
\* (pre-sweep outputs) - (post-sweep outputs).
C7_IncrementIsPreMinusPost ==
    Returned => aitken_work1 = VecSub(last.pre, last.post)

\* C7 (amended): the increment held in delta_outputs_n and saved in
\* delta_outputs_n_1 equals (post-sweep outputs) - (pre-sweep outputs), the
\* change the sweep made to the outputs vector.
C7_IncrementIsPostMinusPre ==
    Returned =>
        /\ aitken_work2 = VecSub(last.post, last.pre)
        /\ aitken_work1 = VecSub(last.post, last.pre)

C7_Witness ==
    /\ Returned
    /\ last.post # last.pre
    /\ aitken_work1 = VecSub(last.post, last.pre)

\* C8: after a completed _iter_execute the outputs equal
\* outputs_n + theta_n * delta_outputs_n = pre + theta_n * (post - pre), where
\* theta_n is 1.0 on iteration 0 and the clamped Aitken factor on later
\* iterations with use_aitken enabled.
C8_RelaxedUpdate ==
    Returned =>
        /\ aitken_work3 = last.pre
        /\ outputs = VecAddScal(aitken_work3, last.theta, aitken_work2)
        /\ outputs = [i \in 1..Len(outputs) |->
                         RAdd(last.pre[i],
                              RMul(last.theta, RSub(last.post[i], last.pre[i])))]
        /\ last.iter = 0 => last.theta = One
        /\ (last.iter >= 1 /\ options.use_aitken) =>
               last.theta = PyMax(options.aitken_min_factor,
                                  PyMin(options.aitken_max_factor, last.raw))

C8_Witness ==
    /\ Returned /\ options.use_aitken /\ last.iter >= 1
    /\ last.theta # One
    /\ last.post # last.pre
    /\ outputs # last.post

RECURSIVE SweepEvents(_)
SweepEvents(n) ==
    IF n = 0 THEN <<>>
    ELSE SweepEvents(n - 1) \o << <<"transfer", n>>, <<"solve", n>>, <<"reconf", n>> >>

CallEvents == SweepEvents(Len(subsystems_myproc)) \o << <<"relax", 0>>, <<"write_back", 0>> >>

\* C9: every _iter_execute visits the subsystems in list order, each once,
\* doing transfer, solve, reconfiguration check for one before anything for
\* the next, and computes the factor and writes the outputs back only after
\* the last subsystem's reconfiguration check.
C9_SweepOrder ==
    /\ Returned => last.events = CallEvents
    /\ last.outcome # "none" =>
           /\ Len(last.events) <= Len(CallEvents)
           /\ last.events = SubSeq(CallEvents, 1, Len(last.events))

C9_Witness ==
    /\ Returned /\ last.iter >= 1
    /\ Len(last.events) = 3 * Len(subsystems_myproc) + 2
    /\ last.post # last.pre

\* C10: every _iter_execute call, also one that a failing subsystem solve
\* ends, leaves the diagnostic prefix as it found it.
C10_PrefixRestored == last.outcome # "none" => prefix = last.prefix_entry

====
